---- MODULE Spec2Model ----
(***************************************************************************)
(* Scanity: the scan-submission pipeline of the QR check-in client.        *)
(*                                                                         *)
(*   ws   the WebSocketService singleton of src/lib/websocket.ts together  *)
(*        with the state of the STOMP client it owns                       *)
(*   ui   the React state and refs of AppContent in src/app/page.tsx       *)
(*                                                                         *)
(* React closures are modelled where the code keeps them alive across      *)
(* renders: the onScan handler captured by the scanner's polling interval  *)
(* (variable onScan) and the handleScan invocations suspended on the HTTP  *)
(* request (variable sends).                                               *)
(***************************************************************************)
EXTENDS Integers, Sequences, FiniteSets, TLC

\* ------------------------------------------------------------------ bounds
MaxReconnects == 5
MaxSleeping == 2
MaxLate == 1
MaxSends == 2
MaxTimers == 2
MaxCooldowns == 2
MaxUserId == 11
MaxStatusTimers == 1
MaxCalls == 2
MaxStreams == 3
MaxRequests == 2
MaxPage == 5
MaxItems == 120
MaxLocal == 2
ShortPage == 5

\* ------------------------------------------------------- program constants
BaseReconnectDelay == 2000
maxReconnectDelay == 30000
\* the inactivity timeout of the camera, in seconds
CameraTimeoutSeconds == 60
\* the items kept in memory and the size of a page of the history
HistoryCap == 100
PageSize == 20

Null == "null"

\* localStorage qr_scanner_access_token: absent, stored with its expiry more
\* than the 30 s safety margin away, or stored and within the margin / expired
Tokens == {"none", "fresh", "expiring"}

\* getStoredToken() as connect() tests it: if (!token)
HasToken(tok) == tok # "none"
Payloads == {"", "qrA", "qrB", "txt"}

\* Besides the pipeline (ws ... scanner) the state holds the parts that are
\* specified on their own: qr (the payload codec), view (the ScanResult
\* view), camera (the streams of the camera device), call (the
\* makeAuthenticatedRequest calls and the localStorage they share) and
\* history (the history slice of the store).  historyAdded is the number of
\* addHistoryItem actions the last step of the pipeline dispatched.
VARIABLES ws, deactivating, reconnecting, lastDelay, reconnectCalls,
          token, ui, processedQRCache, resetTimers, onScan,
          sends, awaiting, sentSince, initAwait, effectPending, notice,
          scanner, qr, view, historyAdded, camera, call, history

vars == <<ws, deactivating, reconnecting, lastDelay, reconnectCalls,
          token, ui, processedQRCache, resetTimers, onScan,
          sends, awaiting, sentSince, initAwait, effectPending, notice,
          scanner, qr, view, historyAdded, camera, call, history>>

programVars ==
    <<ws, deactivating, reconnecting, lastDelay, reconnectCalls,
      token, ui, processedQRCache, resetTimers, onScan,
      sends, awaiting, sentSince, initAwait, effectPending, notice,
      scanner>>

\* ------------------------------------------------------------- helpers
Pow2(n) == IF n = 0 THEN 1 ELSE IF n = 1 THEN 2 ELSE IF n = 2 THEN 4
           ELSE IF n = 3 THEN 8 ELSE IF n = 4 THEN 16 ELSE IF n = 5 THEN 32
           ELSE IF n = 6 THEN 64 ELSE 128

Min(a, b) == IF a < b THEN a ELSE b

\* ============================================================ websocket.ts

\* The fields of a freshly constructed WebSocketService.  stompClient is
\* "null" or the state of the client object: "connecting" (activated, the
\* transport not yet open), "open" (transport open, CONNECT sent),
\* "connected" (CONNECTED received), "closed" or "retrying" (the attempt the
\* client makes on its own after a close).  connectionPromise is the
\* state of the memoized promise, connectionResolve / connectionReject say
\* whether the settle functions of that promise are stored.  attempt is the
\* state of the promise that the connect() call which created the current
\* client returned to its caller, sessionUsed whether a connection attempt
\* has already run under the current sessionId.
NewService ==
    [stompClient |-> Null, isConnected |-> FALSE, sessionId |-> 1,
     callbacks |-> FALSE,
     scanResultsSubscription |-> FALSE, errorsSubscription |-> FALSE,
     connectionPromise |-> Null, connectionResolve |-> FALSE,
     connectionReject |-> FALSE, reconnectAttempts |-> 0,
     attempt |-> "none", sessionUsed |-> FALSE]

generateSessionId(w) ==
    [w EXCEPT !.sessionId = w.sessionId + 1, !.sessionUsed = FALSE]

clearConnectionPromise(w) ==
    [w EXCEPT !.connectionPromise = Null, !.connectionResolve = FALSE,
              !.connectionReject = FALSE]

\* stompClient.connected of the STOMP library: true once CONNECTED arrived
StompConnected(w) == w.stompClient = "connected"

\* variant: the open transport alone counts as connected
isConnectedToWebSocket_TransportOnly(w) ==
    w.stompClient \in {"open", "connected"}

isConnectedToWebSocket(w) == w.isConnected /\ StompConnected(w)

\* a client that is deactivated while connected sends DISCONNECT and later
\* delivers onDisconnect; this counts the clients disconnect() leaves so
Deactivated(w) == IF w.stompClient = "connected" THEN 1 ELSE 0

\* variant: the connected flag is left as it is
disconnect_KeepsFlag(w) ==
    clearConnectionPromise(
        [w EXCEPT !.scanResultsSubscription = FALSE,
                  !.errorsSubscription = FALSE,
                  !.stompClient = Null,
                  !.attempt = "none"])

disconnect(w) ==
    clearConnectionPromise(
        [w EXCEPT !.scanResultsSubscription = FALSE,
                  !.errorsSubscription = FALSE,
                  !.stompClient = Null,
                  !.isConnected = FALSE,
                  !.attempt = "none"])

subscribeToChannels(w) ==
    IF w.stompClient = Null \/ ~w.isConnected THEN w
    ELSE [w EXCEPT !.scanResultsSubscription = TRUE,
                   !.errorsSubscription = TRUE]

\* this.connectionResolve?.() and this.connectionReject?.(error): the stored
\* settle functions belong to the memoized promise, which is the promise of
\* the attempt that created the current client
connectionResolve(w) ==
    IF w.connectionResolve /\ w.connectionPromise = "pending"
    THEN [w EXCEPT !.connectionPromise = "resolved", !.attempt = "resolved"]
    ELSE w

connectionReject(w, reason) ==
    IF w.connectionReject /\ w.connectionPromise = "pending"
    THEN [w EXCEPT !.connectionPromise = reason, !.attempt = reason]
    ELSE w

Rejected(s) == s \in {"rejNoToken", "rejStomp", "rejDenied", "rejTransport"}

\* connect(): the service afterwards, the state of the promise returned to
\* the caller, whether a transport was opened and how many connected clients
\* were deactivated
connect(w, tok) ==
    IF w.connectionPromise # Null
    THEN [w |-> w, ret |-> w.connectionPromise, opened |-> 0, left |-> 0]
    ELSE \* executor: connectionResolve / connectionReject are stored first
         LET w1 == [w EXCEPT !.connectionResolve = TRUE,
                             !.connectionReject = TRUE]
         IN IF ~HasToken(tok)
            THEN \* throw -> catch: reject, clearConnectionPromise; then the
                 \* new promise is assigned to the field
                 LET new == IF w1.connectionReject THEN "rejNoToken"
                            ELSE "pending"
                 IN [w |-> [clearConnectionPromise(w1) EXCEPT
                               !.connectionPromise = new],
                     ret |-> new, opened |-> 0, left |-> 0]
            ELSE LET w2 == disconnect(w1)
                 IN [w |-> [w2 EXCEPT !.stompClient = "connecting",
                                      !.connectionPromise = "pending",
                                      !.attempt = "pending",
                                      !.sessionUsed = TRUE],
                     ret |-> "pending", opened |-> 1,
                     left |-> Deactivated(w1)]

\* ================================================== QR payloads (lib/api.ts)

\* A text is a sequence of characters, a character a string of length one.
\* Ascii lists the printable characters in code order: Ascii[i] has code
\* 31 + i ("backslash" and "backtick" stand for the
\* characters of codes 92 and 96).
Ascii ==
    <<" ", "!", "\"", "#", "$", "%", "&", "'", "(", ")", "*", "+", ",",
      "-", ".", "/", "0", "1", "2", "3", "4", "5", "6", "7", "8", "9", ":",
      ";", "<", "=", ">", "?", "@", "A", "B", "C", "D", "E", "F", "G", "H",
      "I", "J", "K", "L", "M", "N", "O", "P", "Q", "R", "S", "T", "U", "V",
      "W", "X", "Y", "Z", "[", "backslash", "]", "^", "_", "backtick", "a", "b", "c",
      "d", "e", "f", "g", "h", "i", "j", "k", "l", "m", "n", "o", "p", "q",
      "r", "s", "t", "u", "v", "w", "x", "y", "z", "{", "|", "}", "~">>

Ord(c) == 31 + (CHOOSE i \in DOMAIN Ascii : Ascii[i] = c)
Printable(n) == n - 31 \in DOMAIN Ascii
Chr(n) == Ascii[n - 31]
Codes(t) == [i \in DOMAIN t |-> Ord(t[i])]
Chars(b) == [i \in DOMAIN b |-> Chr(b[i])]

\* the base64 alphabet: Base64[i] encodes the sextet i - 1
Base64 ==
    <<"A", "B", "C", "D", "E", "F", "G", "H", "I", "J", "K", "L", "M", "N",
      "O", "P", "Q", "R", "S", "T", "U", "V", "W", "X", "Y", "Z", "a", "b",
      "c", "d", "e", "f", "g", "h", "i", "j", "k", "l", "m", "n", "o", "p",
      "q", "r", "s", "t", "u", "v", "w", "x", "y", "z", "0", "1", "2", "3",
      "4", "5", "6", "7", "8", "9", "+", "/">>

Sextet(c) == (CHOOSE i \in DOMAIN Base64 : Base64[i] = c) - 1
IsBase64(c) == \E i \in DOMAIN Base64 : Base64[i] = c

Drop(t, n) == SubSeq(t, n + 1, Len(t))
StartsWith(t, prefix) ==
    Len(t) >= Len(prefix) /\ SubSeq(t, 1, Len(prefix)) = prefix
Includes(t, c) == \E i \in DOMAIN t : t[i] = c
NotSpace(c) == c # " "

\* btoa: three bytes become four characters, the last group is padded
RECURSIVE btoa(_)
btoa(b) ==
    IF Len(b) = 0 THEN <<>>
    ELSE IF Len(b) = 1
    THEN <<Base64[(b[1] \div 4) + 1], Base64[(b[1] % 4) * 16 + 1], "=", "=">>
    ELSE IF Len(b) = 2
    THEN <<Base64[(b[1] \div 4) + 1],
           Base64[(b[1] % 4) * 16 + (b[2] \div 16) + 1],
           Base64[(b[2] % 16) * 4 + 1], "=">>
    ELSE <<Base64[(b[1] \div 4) + 1],
           Base64[(b[1] % 4) * 16 + (b[2] \div 16) + 1],
           Base64[(b[2] % 16) * 4 + (b[3] \div 64) + 1],
           Base64[(b[3] % 64) + 1]>> \o btoa(Drop(b, 3))

\* the bytes of a sequence of sextets
RECURSIVE Unsextet(_)
Unsextet(x) ==
    IF Len(x) < 2 THEN <<>>
    ELSE IF Len(x) = 2 THEN <<x[1] * 4 + (x[2] \div 16)>>
    ELSE IF Len(x) = 3
    THEN <<x[1] * 4 + (x[2] \div 16), (x[2] % 16) * 16 + (x[3] \div 4)>>
    ELSE <<x[1] * 4 + (x[2] \div 16), (x[2] % 16) * 16 + (x[3] \div 4),
           (x[3] % 4) * 64 + x[4]>> \o Unsextet(Drop(x, 4))

\* atob: ASCII whitespace is removed, then one or two "=" at the end of a
\* text whose length is a multiple of four; what is left must consist of
\* base64 characters and its length must not be 1 modulo 4, else atob throws
atob(t) ==
    LET t1 == SelectSeq(t, NotSpace)
        n  == Len(t1)
        t2 == IF n > 0 /\ n % 4 = 0 /\ t1[n] = "="
              THEN IF t1[n - 1] = "=" THEN SubSeq(t1, 1, n - 2)
                   ELSE SubSeq(t1, 1, n - 1)
              ELSE t1
    IN IF Len(t2) % 4 = 1 \/ \E i \in DOMAIN t2 : ~IsBase64(t2[i])
       THEN [ok |-> FALSE, bytes |-> <<>>]
       ELSE [ok |-> TRUE,
             bytes |-> Unsextet([i \in DOMAIN t2 |-> Sextet(t2[i])])]

DigitChars == <<"0", "1", "2", "3", "4", "5", "6", "7", "8", "9">>
IsDigit(c) == \E i \in DOMAIN DigitChars : DigitChars[i] = c
DigitValue(c) == (CHOOSE i \in DOMAIN DigitChars : DigitChars[i] = c) - 1

RECURSIVE Decimal(_)
Decimal(n) ==
    IF n < 10 THEN <<DigitChars[n + 1]>>
    ELSE Decimal(n \div 10) \o <<DigitChars[(n % 10) + 1]>>

RECURSIVE Number(_)
Number(t) ==
    IF Len(t) = 0 THEN 0
    ELSE 10 * Number(SubSeq(t, 1, Len(t) - 1)) + DigitValue(t[Len(t)])

\* the JSON text of an identity record is
\*   {"userID":<number>,"email":"<string>"}
JsonOpen == <<"{", "\"", "u", "s", "e", "r", "I", "D", "\"", ":">>
JsonMiddle == <<",", "\"", "e", "m", "a", "i", "l", "\"", ":", "\"">>
JsonClose == <<"\"", "}">>

\* JSON.stringify of an identity record whose email needs no escapes
JsonStringify(id) ==
    JsonOpen \o Decimal(id.userID) \o JsonMiddle \o id.email \o JsonClose

\* JSON.parse of the bytes of a JSON text of that shape: the record, or a
\* failure for every other text (it is not JSON, or it has no userID)
JsonParse(b) ==
    IF \E i \in DOMAIN b : ~Printable(b[i]) THEN [ok |-> FALSE]
    ELSE
    LET t      == Chars(b)
        rest   == Drop(t, Len(JsonOpen))
        nd     == IF \E i \in DOMAIN rest : ~IsDigit(rest[i])
                  THEN (CHOOSE i \in DOMAIN rest :
                           /\ ~IsDigit(rest[i])
                           /\ \A j \in 1..(i - 1) : IsDigit(rest[j])) - 1
                  ELSE Len(rest)
        digits == SubSeq(rest, 1, nd)
        tail   == Drop(rest, nd)
        str    == SubSeq(tail, Len(JsonMiddle) + 1, Len(tail) - Len(JsonClose))
    IN IF /\ StartsWith(t, JsonOpen)
          /\ nd >= 1 /\ (nd > 1 => digits[1] # "0")
          /\ StartsWith(tail, JsonMiddle)
          /\ Len(tail) >= Len(JsonMiddle) + Len(JsonClose)
          /\ Drop(tail, Len(tail) - Len(JsonClose)) = JsonClose
          /\ ~Includes(str, "\"") /\ ~Includes(str, "backslash")
       THEN [ok |-> TRUE, userID |-> Number(digits), email |-> str]
       ELSE [ok |-> FALSE]

\* "data.userID && data.email" of a parsed record: 0 and "" are falsy
Truthy(d) == d.userID # 0 /\ d.email # <<>>

\* decodeQRData(base64Data): the set holding the identity, empty for null
decodeQRData(t) ==
    LET a == atob(t)
        d == JsonParse(a.bytes)
    IN IF a.ok /\ d.ok /\ Truthy(d)
       THEN {[userID |-> d.userID, email |-> d.email]}
       ELSE {}

\* variant: the Email rule is tested before the URL rule
getResultType_EmailFirst(t) ==
    IF decodeQRData(t) # {} THEN "User QR"
    ELSE IF Includes(t, "@") /\ Includes(t, ".") THEN "Email"
    ELSE IF StartsWith(t, <<"h", "t", "t", "p", ":", "/", "/">>)
            \/ StartsWith(t, <<"h", "t", "t", "p", "s", ":", "/", "/">>)
    THEN "URL"
    ELSE IF StartsWith(t, <<"W", "i", "F", "i", ":">>) THEN "WiFi"
    ELSE IF StartsWith(t, <<"t", "e", "l", ":">>)
            \/ StartsWith(t, <<"s", "m", "s", ":">>)
    THEN "Contact"
    ELSE "Text"

\* getResultType(text) of page.tsx
getResultType(t) ==
    IF LET a == atob(t)
           d == JsonParse(a.bytes)
       IN a.ok /\ d.ok /\ Truthy(d)
    THEN "User QR"
    ELSE IF StartsWith(t, <<"h", "t", "t", "p", ":", "/", "/">>)
            \/ StartsWith(t, <<"h", "t", "t", "p", "s", ":", "/", "/">>)
    THEN "URL"
    ELSE IF StartsWith(t, <<"W", "i", "F", "i", ":">>) THEN "WiFi"
    ELSE IF Includes(t, "@") /\ Includes(t, ".") THEN "Email"
    ELSE IF StartsWith(t, <<"t", "e", "l", ":">>)
            \/ StartsWith(t, <<"s", "m", "s", ":">>)
    THEN "Contact"
    ELSE "Text"

\* the identities and the scanned texts the codec is run on
Emails == {<<>>, <<"a", "@", "b", ".", "c">>, <<"b", "@", "a", ".", "c">>}
Identities == [userID : 0..MaxUserId, email : Emails]
TextPayloads ==
    {<<"h", "t", "t", "p", "s", ":", "/", "/", "a", "@", "b", ".", "c">>,
     <<"h", "t", "t", "p", ":", "/", "/", "x">>,
     <<"W", "i", "F", "i", ":", "a", "@", "b", ".", "c">>,
     <<"W", "i", "F", "i", ":", "x">>,
     <<"a", "@", "b", ".", "c">>,
     <<"t", "e", "l", ":", "1">>,
     <<"t", "e", "l", ":", "a", "@", "b", ".", "c">>,
     <<"s", "m", "s", ":", "1">>,
     <<"x", " ", "y">>,
     <<"w", "i", "f", "i", ":", "x">>,
     <<"m", "a", "i", "l", "t", "o">>,
     <<>>,
     <<"e", "y", "J", "1", "c", "2", "V", "y", "S", "U", "Q", "i", "O", "j", "Q", "y", "L", "C", "J", "l", "b", "W", "F", "p", "b", "C", "I", "6", "I", "m", "F", "A", "Y", "i", "5", "j", "I", "n", "0", "=">>,
     <<"e", "y", "J", "1", "c", "2", "V", "y", "S", "U", "Q", "i", "O", "j", "A", "s", "I", "m", "V", "t", "Y", "W", "l", "s", "I", "j", "o", "i", "Y", "U", "B", "i", "L", "m", "M", "i", "f", "Q", "=", "=">>,
     <<"b", "n", "V", "s", "b", "A", "=", "=">>}

\* qr: an identity, the text of its QR code once it is encoded, or a scanned
\* text; what decodeQRData and getResultType made of the text
IdleQr ==
    [stage |-> "idle", identity |-> {}, text |-> <<>>,
     decoded |-> {}, decodedDone |-> FALSE, kind |-> "none"]

CodecInputs ==
    {[IdleQr EXCEPT !.stage = "identity", !.identity = {id}] :
        id \in Identities}
    \cup {[IdleQr EXCEPT !.stage = "text", !.text = t] : t \in TextPayloads}

\* ============================================ ScanResult (the result view)

Attendees == {"qrA", "qrB"}
Items == {"LUNCH_COUPON", "BAG"}
NoneIssued == [LUNCH_COUPON |-> FALSE, BAG |-> FALSE]

\* The ScanResult component and the backend it talks to.  result: the prop;
\* userData: empty for null, else the record of the attendee with its two
\* issued flags (hasLunchIssuedToday, hasBagIssued); loads: the attendees
\* whose getUserAttendanceData request is in flight; request: the
\* markItemIssued request in flight with the userData its handler closes
\* over; statusTimers: the pending 2500 ms timers per item; server: the
\* issued flags the backend stores.
NoView ==
    [result |-> Null, userData |-> {}, loads |-> {}, updating |-> FALSE,
     request |-> {},
     issuanceStatus |-> [i \in Items |-> "null"],
     statusTimers |-> [i \in Items |-> 0],
     server |-> [a \in Attendees |-> NoneIssued]]

\* the view right after it is mounted with a result: processQRData has
\* started
MountedViews ==
    {[NoView EXCEPT !.result = r, !.loads = {r}, !.server = sv] :
        r \in Attendees,
        sv \in [Attendees -> [LUNCH_COUPON : BOOLEAN, BAG : BOOLEAN]]}

\* variant: the updated record is built from the item alone
updatedUser_ItemOnly(u, item) ==
    [userID |-> u.userID, issued |-> [NoneIssued EXCEPT ![item] = TRUE]]

\* const updatedUser = { ...userData, [flag of itemType]: true }
updatedUser(u, item) == [u EXCEPT !.issued[item] = TRUE]

\* what the backend answers to a mark-item request for an attendee whose
\* flags are sv, or what the request fails with
MarkOutcomes(sv, item) ==
    (IF sv[item] THEN {"alreadyMarked"} ELSE {"marked"})
    \cup {"notIssued", "failed", "unexpected"}

\* handleMarkItemIssued after its await: the userData it sets, if any, for
\* the outcome; u is the userData of the render of the click
MarkResult(u, item, outcome) ==
    IF outcome \in {"marked", "alreadyMarked"} THEN {updatedUser(u, item)}
    ELSE {}

MarkStatus(outcome) ==
    IF outcome \in {"marked", "alreadyMarked"} THEN "success" ELSE "error"

\* ================================================================ page.tsx

NewUi ==
    [user |-> FALSE, cameraActive |-> FALSE, isProcessing |-> FALSE,
     webSocketConnected |-> FALSE, scanCompleted |-> FALSE,
     lastScannedQR |-> Null, scanResult |-> Null,
     setupCompleteRef |-> FALSE, errorToastShownRef |-> FALSE,
     healthCheck |-> FALSE,
     timeLeft |-> CameraTimeoutSeconds, countdownRef |-> TRUE,
     cameraTimeoutRef |-> "silent"]

\* "if (!errorToastShownRef.current) { errorToastShownRef.current = true;
\*  <toast>; setTimeout(reset flag) }": the notice shown and the timers added
Shown(u, kind) == IF u.errorToastShownRef THEN "none" ELSE kind
TimerAdd(u) == IF u.errorToastShownRef THEN 0 ELSE 1
Flagged(u) == [u EXCEPT !.errorToastShownRef = TRUE]

\* the title showError gives an error notice, "none" for every other notice
NoticeClass(n) ==
    IF n \in {"empty", "format", "sendFailed", "scanError", "badResponse"}
    THEN "Scan Error"
    ELSE IF n \in {"notConnected", "connectFailed"} THEN "Connection Error"
    ELSE IF n = "noSession" THEN "Session Expired"
    ELSE IF n = "accessDenied" THEN "Access Denied"
    ELSE "none"

\* the callbacks setupWebSocketCallbacks registers with the service
onConnected(u) ==
    [u EXCEPT !.webSocketConnected = TRUE, !.setupCompleteRef = TRUE,
              !.errorToastShownRef = FALSE]

onDisconnected(u) ==
    Flagged([u EXCEPT !.webSocketConnected = FALSE,
                      !.setupCompleteRef = FALSE])

\* userID and email of the record a payload decodes to (atob + JSON.parse);
\* "txt" is not base64 and "" is empty
IsIdentity(p) == p \in {"qrA", "qrB"}

\* the values a handleScan created by the current render closes over
Closure(u) ==
    [running |-> TRUE, isProcessing |-> u.isProcessing,
     webSocketConnected |-> u.webSocketConnected,
     user |-> u.user, lastScannedQR |-> u.lastScannedQR]

\* no scanner interval is installed
NoScanner ==
    [running |-> FALSE, isProcessing |-> FALSE, webSocketConnected |-> FALSE,
     user |-> FALSE, lastScannedQR |-> Null]

\* QRScanner is rendered only while the user is logged in and the camera is
\* active; mounting starts the scanner with the onScan of that render and
\* unmounting stops it
Mounted(u) == u.user /\ u.cameraActive
Remount(u, u2, h) ==
    IF ~Mounted(u2) THEN NoScanner
    ELSE IF Mounted(u) THEN h ELSE Closure(u2)

NoSentSince == [p \in Payloads |-> 0]

\* --------------------------------- makeAuthenticatedRequest (lib/api.ts)

\* localStorage as api.ts uses it: the access token ("none", the one stored
\* by the login, or one stored by a refresh), the refresh token and the
\* user data
LoggedOut == [accessToken |-> "none", refreshToken |-> FALSE,
              userData |-> FALSE]
LoggedIn == [accessToken |-> "login", refreshToken |-> TRUE,
             userData |-> TRUE]

\* clearStoredData()
clearStoredData(st) == LoggedOut

CallIds == 1..MaxRequests

\* A makeAuthenticatedRequest call: where it is suspended ("idle" before the
\* call, "first", "refresh", "retry" for the three awaited requests, "done"
\* once it has returned or thrown), how many requests for the URL and how
\* many refresh requests it has sent, and how it ended.
IdleCall == [phase |-> "idle", fetches |-> 0, refreshes |-> 0,
             outcome |-> "none"]

\* no makeAuthenticatedRequest call is running and nothing is stored
NoCall == [storage |-> LoggedOut, calls |-> [id \in CallIds |-> IdleCall]]

\* what a request can come back with: an OK status, 401, another non-OK
\* status, or a rejected fetch
Responses == {"ok", "unauthorized", "error", "network"}

Ended(c, outcome) == [c EXCEPT !.phase = "done", !.outcome = outcome]

CallStep(id, c2, st2) ==
    /\ call' = [call EXCEPT !.calls[id] = c2, !.storage = st2]
    /\ UNCHANGED <<programVars, historyAdded, qr, view, camera, history>>

\* storeUserData() of a login
StoreUserData ==
    /\ call.storage = LoggedOut
    /\ call' = [call EXCEPT !.storage = LoggedIn]
    /\ UNCHANGED <<programVars, historyAdded, qr, view, camera, history>>

\* makeAuthenticatedRequest up to the await of the first fetch
MakeAuthenticatedRequest ==
    \E id \in CallIds :
       /\ call.calls[id].phase = "idle"
       /\ CallStep(id,
                   IF call.storage.accessToken = "none"
                   THEN Ended(call.calls[id], "noToken")
                   ELSE [call.calls[id] EXCEPT !.phase = "first",
                                               !.fetches = @ + 1],
                   call.storage)

\* refreshAccessToken() up to the await of its fetch: without a refresh
\* token it returns null at once and the caller throws
refreshAccessToken(c, st) ==
    IF ~st.refreshToken
    THEN [c |-> Ended(c, "authFailed"), st |-> st]
    ELSE [c |-> [c EXCEPT !.phase = "refresh", !.refreshes = @ + 1],
          st |-> st]

\* the first fetch comes back
FirstResponse ==
    \E id \in CallIds, r \in Responses :
       LET c == call.calls[id]
       IN /\ c.phase = "first"
          /\ CASE r = "ok" -> CallStep(id, Ended(c, "ok"), call.storage)
               [] r = "unauthorized" ->
                    LET x == refreshAccessToken(c, call.storage)
                    IN CallStep(id, x.c, x.st)
               [] r = "error" ->
                    CallStep(id, Ended(c, "requestFailed"), call.storage)
               [] r = "network" ->
                    CallStep(id, Ended(c, "network"), call.storage)

\* the fetch of refreshAccessToken comes back: an OK response stores the new
\* access token and the request is retried; otherwise the catch of
\* refreshAccessToken clears the stored data and the caller throws
RefreshResponse ==
    \E id \in CallIds, r \in {"ok", "error", "network"} :
       LET c == call.calls[id]
       IN /\ c.phase = "refresh"
          /\ IF r = "ok"
             THEN CallStep(id, [c EXCEPT !.phase = "retry", !.fetches = @ + 1],
                           [call.storage EXCEPT !.accessToken = "refreshed"])
             ELSE CallStep(id, Ended(c, "authFailed"),
                           clearStoredData(call.storage))

\* the retried fetch comes back
RetryResponse ==
    \E id \in CallIds, r \in Responses :
       LET c == call.calls[id]
       IN /\ c.phase = "retry"
          /\ CallStep(id,
                      Ended(c, IF r = "ok" THEN "ok"
                               ELSE IF r = "network" THEN "network"
                               ELSE "requestFailed"),
                      call.storage)

\* the caller has the result; the next call of this caller may begin
CallReturns ==
    \E id \in CallIds :
       /\ call.calls[id].phase = "done"
       /\ CallStep(id, IdleCall, call.storage)

NextRequest ==
    \/ StoreUserData \/ MakeAuthenticatedRequest \/ FirstResponse
    \/ RefreshResponse \/ RetryResponse \/ CallReturns

\* ------------------------------------------ store/slices/historySlice.ts

\* the history slice
initialState ==
    [items |-> <<>>, loading |-> FALSE, hasMore |-> TRUE, currentPage |-> 0]

\* The item handleScanSuccess builds (its id is Date.now()), and the i-th
\* item of page k of the server's list.
NewScan == [id |-> 0, updated |-> FALSE]
ServerItem(k, i) == [id |-> k * PageSize + i, updated |-> FALSE]
Page(k, size) == [i \in 1..size |-> ServerItem(k, i)]

HistoryStep(h2) ==
    /\ history' = h2
    /\ UNCHANGED <<programVars, historyAdded, qr, view, camera, call>>

\* the addHistoryItem reducer: unshift, then the cut to the first 100
addHistoryItem(h, item) ==
    LET all == <<item>> \o h.items
    IN [h EXCEPT !.items = IF Len(all) > HistoryCap
                           THEN SubSeq(all, 1, HistoryCap) ELSE all]

\* the items of the list that addHistoryItem put there
Local(h) == {i \in DOMAIN h.items : h.items[i].id = NewScan.id}

AddHistoryItem ==
    /\ Cardinality(Local(history)) < MaxLocal
    /\ HistoryStep(addHistoryItem(history, NewScan))

\* the updateHistoryItem reducer: the first item with the id is updated.
\* The ids tried are that of the first item of the server's list and one
\* no item has.
UpdateHistoryItem ==
    /\ history.items # <<>>
    /\ \E id \in {1, -1} :
          LET hits == {i \in DOMAIN history.items : history.items[i].id = id}
          IN HistoryStep(
                IF hits = {} THEN history
                ELSE LET index == CHOOSE i \in hits : \A j \in hits : i <= j
                     IN [history EXCEPT !.items[index].updated = TRUE])

\* the clearHistory reducer
ClearHistory ==
    /\ history.items # <<>>
    /\ HistoryStep([history EXCEPT !.items = <<>>, !.currentPage = 0,
                                !.hasMore = TRUE])

\* fetchScannerHistory.pending
FetchPending ==
    /\ ~history.loading
    /\ HistoryStep([history EXCEPT !.loading = TRUE])

\* fetchScannerHistory.fulfilled for page 0 or for the page after the
\* current one, with a full page or a short one
FetchFulfilled ==
    /\ history.loading
    /\ \E page \in {0, history.currentPage + 1}, size \in {ShortPage, PageSize} :
          /\ page <= MaxPage
          /\ page > 0 => Len(history.items) + size <= MaxItems
          /\ HistoryStep([history EXCEPT
                !.loading = FALSE,
                !.items = IF page = 0 THEN Page(page, size)
                          ELSE @ \o Page(page, size),
                !.currentPage = page,
                !.hasMore = (size = PageSize)])

\* fetchScannerHistory.rejected
FetchRejected ==
    /\ history.loading
    /\ HistoryStep([history EXCEPT !.loading = FALSE])

NextHistory ==
    \/ AddHistoryItem \/ UpdateHistoryItem \/ ClearHistory
    \/ FetchPending \/ FetchFulfilled \/ FetchRejected

\* ------------------------------------------- QRScanner: the camera streams

\* The streams of the camera device over the instances of QRScanner.
\* mounted: an instance is rendered; cameraState, facingMode, isScanning
\* and streamRef are those of the rendered instance (streamRef: it refers
\* to a stream); requesting: its
\* startCamera() calls that await getUserMedia; restart: the 100 ms timer of
\* switchCamera is pending; orphans: the startCamera() calls of unmounted
\* instances that await getUserMedia or are about to be made by a pending
\* timer; live: the streams obtained whose tracks were not stopped.
NewCamera ==
    [mounted |-> FALSE, cameraState |-> "idle", streamRef |-> FALSE,
     facingMode |-> "environment", isScanning |-> FALSE,
     requesting |-> 0, restart |-> FALSE, orphans |-> 0, live |-> 0]

\* stopCamera(): the tracks of streamRef.current are stopped
StopCamera(c) ==
    [c EXCEPT !.live = IF c.streamRef THEN @ - 1 ELSE @,
              !.streamRef = FALSE, !.cameraState = "idle",
              !.isScanning = FALSE]

\* startCamera() up to the await of getUserMedia
StartCamera(c) ==
    [c EXCEPT !.cameraState = "requesting", !.requesting = @ + 1]

CameraStep(c2) ==
    /\ camera' = c2
    /\ UNCHANGED <<programVars, historyAdded, qr, view, call, history>>

\* AppContent renders the scanner: the mount effect calls startCamera()
CameraMount ==
    /\ ~camera.mounted
    /\ camera.requesting + camera.orphans < MaxCalls
    /\ CameraStep(StartCamera([camera EXCEPT !.mounted = TRUE,
                                             !.cameraState = "idle",
                                             !.facingMode = "environment",
                                             !.streamRef = FALSE]))

\* the cleanup of the rendered instance
Unmounted(c) ==
    [StopCamera(c) EXCEPT
        !.mounted = FALSE, !.requesting = 0, !.restart = FALSE,
        !.orphans = @ + c.requesting + (IF c.restart THEN 1 ELSE 0)]

\* AppContent stops rendering the scanner: the cleanup calls stopCamera().
\* Neither the calls in flight nor the timer of switchCamera are cancelled.
CameraUnmount ==
    /\ camera.mounted
    /\ CameraStep(Unmounted(camera))

\* getUserMedia of a call of the rendered instance resolves:
\* streamRef.current = stream, whatever it referred to before
GetUserMediaResolved ==
    /\ camera.mounted /\ camera.requesting > 0
    /\ camera.live < MaxStreams
    /\ CameraStep([camera EXCEPT !.requesting = @ - 1, !.live = @ + 1,
                                 !.streamRef = TRUE,
                                 !.cameraState = "granted"])

\* getUserMedia rejects: the catch of startCamera() calls onError, which
\* is setCameraActive(false) of AppContent: the scanner is unmounted
GetUserMediaRejected ==
    /\ camera.mounted /\ camera.requesting > 0
    /\ CameraStep(Unmounted([camera EXCEPT !.requesting = @ - 1,
                                           !.cameraState = "denied"]))

\* getUserMedia of a call of an unmounted instance resolves: the stream is
\* stored in the streamRef of that instance, which nothing reads again
OrphanResolved ==
    /\ camera.orphans > 0
    /\ camera.live < MaxStreams
    /\ CameraStep([camera EXCEPT !.orphans = @ - 1, !.live = @ + 1])

\* getUserMedia of such a call rejects: its onError is that of AppContent too
OrphanRejected ==
    /\ camera.orphans > 0
    /\ LET c == [camera EXCEPT !.orphans = @ - 1]
       IN CameraStep(IF c.mounted THEN Unmounted(c) ELSE c)

\* the video of the rendered instance plays: setIsScanning(true)
VideoPlays ==
    /\ camera.mounted /\ camera.cameraState = "granted"
    /\ camera.streamRef /\ ~camera.isScanning
    /\ CameraStep([camera EXCEPT !.isScanning = TRUE])

\* the switch-camera button, rendered while cameraState is "granted"
CameraSwitch ==
    /\ camera.mounted /\ camera.cameraState = "granted" /\ ~camera.restart
    /\ CameraStep([StopCamera(camera) EXCEPT
                      !.restart = TRUE,
                      !.facingMode = IF @ = "user" THEN "environment"
                                     ELSE "user"])

\* the 100 ms timer of switchCamera: startCamera()
CameraSwitchTimer ==
    /\ camera.mounted /\ camera.restart
    /\ camera.requesting + camera.orphans < MaxCalls
    /\ CameraStep(StartCamera([camera EXCEPT !.restart = FALSE]))

\* the "Enable Camera" / "Try Again" button, rendered while cameraState is
\* "idle" or "denied" ("idle": in the 100 ms after switchCamera)
CameraEnable ==
    /\ camera.mounted /\ camera.cameraState \in {"idle", "denied"}
    /\ camera.requesting + camera.orphans < MaxCalls
    /\ CameraStep(StartCamera(camera))

NextCamera ==
    \/ CameraMount \/ CameraUnmount
    \/ GetUserMediaResolved \/ GetUserMediaRejected \/ VideoPlays
    \/ OrphanResolved \/ OrphanRejected
    \/ CameraSwitch \/ CameraSwitchTimer \/ CameraEnable

\* ------------------------------------------------- QRScanner (the component)

\* The QRScanner instance AppContent renders, and what unmounted instances
\* left behind.  starting: a startCamera() call awaits the stream and the
\* video; stream: streamRef.current; video: the video element is rendered
\* and playing; interval: scanIntervalRef.current, the polling interval;
\* cooldowns: the pending 2000 ms timers of this instance in the order they
\* fire, each with the onScan its startScanning closes over; stale: the
\* pending 2000 ms timers of unmounted instances; restart: the 100 ms timer
\* of switchCamera; stopped: stopCamera() ran and startCamera() was not
\* called since.  The camera streams themselves, those of unmounted
\* instances included, are the variable camera.
NewScanner ==
    [starting |-> FALSE, stream |-> FALSE, video |-> FALSE,
     interval |-> FALSE, cooldowns |-> <<>>, stale |-> 0,
     restart |-> FALSE, stopped |-> FALSE]

\* variant: only the tracks are stopped
stopCamera_TracksOnly(sc) ==
    [sc EXCEPT !.stream = FALSE, !.stopped = TRUE]

stopCamera(sc) ==
    [sc EXCEPT !.stream = FALSE, !.video = FALSE, !.interval = FALSE,
               !.stopped = TRUE]

\* startCamera() up to its first await
startCamera(sc) == [sc EXCEPT !.starting = TRUE, !.stopped = FALSE]

\* the mount effect (autoStart) and its cleanup.  The calls and timers of an
\* unmounted instance find its videoRef and scanIntervalRef null.
Rescan(u, u2, sc) ==
    IF Mounted(u2) /\ ~Mounted(u) THEN startCamera(sc)
    ELSE IF Mounted(u) /\ ~Mounted(u2)
         THEN [stopCamera(sc) EXCEPT !.starting = FALSE, !.restart = FALSE,
                                     !.cooldowns = <<>>,
                                     !.stale = sc.stale + Len(sc.cooldowns)]
         ELSE sc

\* the health check effect (dependencies: user): its cleanup clears the
\* interval, and it installs a new one only when it runs with a user and
\* with setupCompleteRef already set
HealthEffect(u, u2) ==
    IF u2.user = u.user THEN u2
    ELSE [u2 EXCEPT !.healthCheck = u2.user /\ u2.setupCompleteRef]

\* a render: the new React state, the scanner (re)mounted or unmounted by
\* it, and the connection effect rescheduled when its dependencies changed
RenderScanner(u2, sc) ==
    /\ ui' = HealthEffect(ui, u2)
    /\ onScan' = Remount(ui, u2, onScan)
    /\ scanner' = Rescan(ui, u2, sc)
    /\ effectPending' = (u2.user /\ (u2.lastScannedQR # ui.lastScannedQR
                                      \/ ~ui.user))

Render(u2) == RenderScanner(u2, scanner)

\* a registered callback runs, an unregistered one is skipped (?.)
Callback(u2) == IF ws.callbacks THEN u2 ELSE ui

\* initAwait is the promise initializeWebSocket is suspended on: "none",
\* "current" (the memoized promise, pending) or the rejection it is about to
\* catch.  A pending promise that is dropped from the service unsettled never
\* settles: its waiter is suspended for good.
Dropped == IF initAwait = "current" THEN "none" ELSE initAwait

\* The connection effect runs right after the render that scheduled it and
\* the catch of initializeWebSocket right after the rejection: every other
\* handler runs when neither is due.
Quiescent == ~effectPending /\ ~Rejected(initAwait)

InitProgram ==
    /\ ws = NewService
    /\ deactivating = 0
    /\ reconnecting = 0
    /\ lastDelay = 0
    /\ reconnectCalls = 0
    /\ token = "none"
    /\ ui = NewUi
    /\ processedQRCache = {}
    /\ resetTimers = 0
    /\ onScan = NoScanner
    /\ scanner = NewScanner
    /\ sends = {}
    /\ awaiting = {}
    /\ sentSince = NoSentSince
    /\ initAwait = "none"
    /\ effectPending = FALSE
    /\ notice = "none"
    /\ historyAdded = 0

Init ==
    /\ InitProgram
    /\ qr = IdleQr /\ view = NoView
    /\ camera = NewCamera /\ call = NoCall /\ history = initialState

\* ----------------------------------------------- STOMP client of the service

\* the transport of the active client opens; CONNECT is sent
TransportOpen ==
    /\ Quiescent
    /\ UNCHANGED <<qr, view, camera, call, history>> /\ historyAdded' = 0
    /\ UNCHANGED scanner
    /\ ws.stompClient = "connecting"
    /\ ws' = [ws EXCEPT !.stompClient = "open"]
    /\ notice' = "none"
    /\ UNCHANGED <<deactivating, reconnecting, lastDelay, reconnectCalls,
                   token, ui, processedQRCache, resetTimers, onScan, sends,
                   awaiting, sentSince, initAwait, effectPending>>

\* CONNECTED arrives: the onConnect callback of the client
onConnect ==
    /\ Quiescent
    /\ UNCHANGED <<qr, view, camera, call, history>> /\ historyAdded' = 0
    /\ ws.stompClient = "open"
    /\ LET w1 == [ws EXCEPT !.stompClient = "connected", !.isConnected = TRUE,
                            !.reconnectAttempts = 0]
           w2 == subscribeToChannels(w1)
       IN ws' = clearConnectionPromise(connectionResolve(w2))
    /\ Render(Callback(onConnected(ui)))
    /\ initAwait' = Dropped
    /\ reconnectCalls' = 0
    /\ notice' = IF ws.callbacks THEN "connected" ELSE "none"
    /\ UNCHANGED <<deactivating, reconnecting, lastDelay, token,
                   processedQRCache, resetTimers, sends, awaiting, sentSince>>

\* what onStompError, onWebSocketError and onDisconnect have in common;
\* reason is the error the promise is rejected with, "none" for onDisconnect
ConnectionLost(w, reason) ==
    /\ LET w1 == [w EXCEPT !.isConnected = FALSE]
           w2 == IF reason = "none" THEN w1 ELSE connectionReject(w1, reason)
       IN /\ ws' = clearConnectionPromise(w2)
          /\ initAwait' = IF initAwait = "current"
                             /\ Rejected(w2.connectionPromise)
                          THEN w2.connectionPromise ELSE Dropped
    /\ resetTimers + (IF ws.callbacks THEN TimerAdd(ui) ELSE 0) <= MaxTimers
    /\ resetTimers' = resetTimers + (IF ws.callbacks THEN TimerAdd(ui) ELSE 0)
    /\ Render(Callback(onDisconnected(ui)))
    /\ notice' = IF ws.callbacks THEN Shown(ui, "connectionLost") ELSE "none"

\* an ERROR frame arrives (during the handshake or later) and the server
\* closes the connection.  The client stays active and after reconnectDelay
\* asks webSocketFactory for a transport again, which returns the same, now
\* closed, SockJS object: a "closed" client delivers no further event
onStompError ==
    /\ Quiescent
    /\ UNCHANGED <<qr, view, camera, call, history>> /\ historyAdded' = 0
    /\ ws.stompClient \in {"open", "connected"}
    /\ \E reason \in {"rejStomp", "rejDenied"} :
          ConnectionLost([ws EXCEPT !.stompClient = "closed"], reason)
    /\ UNCHANGED <<deactivating, reconnecting, lastDelay, reconnectCalls,
                   token, processedQRCache, sends, awaiting, sentSince>>

onWebSocketError ==
    /\ Quiescent
    /\ UNCHANGED <<qr, view, camera, call, history>> /\ historyAdded' = 0
    /\ ws.stompClient \in {"connecting", "open", "connected"}
    /\ ConnectionLost([ws EXCEPT !.stompClient = "closed"], "rejTransport")
    /\ UNCHANGED <<deactivating, reconnecting, lastDelay, reconnectCalls,
                   token, processedQRCache, sends, awaiting, sentSince>>

\* the DISCONNECT receipt of a client that disconnect() deactivated
onDisconnect ==
    /\ Quiescent
    /\ UNCHANGED <<qr, view, camera, call, history>> /\ historyAdded' = 0
    /\ deactivating > 0
    /\ deactivating' = deactivating - 1
    /\ ConnectionLost(ws, "none")
    /\ UNCHANGED <<reconnecting, lastDelay, reconnectCalls, token,
                   processedQRCache, sends, awaiting, sentSince>>

\* the transport closes without an error event (no onWebSocketClose handler)
TransportClose ==
    /\ Quiescent
    /\ UNCHANGED <<qr, view, camera, call, history>> /\ historyAdded' = 0
    /\ UNCHANGED scanner
    /\ ws.stompClient \in {"open", "connected"}
    /\ ws' = [ws EXCEPT !.stompClient = "closed"]
    /\ notice' = "none"
    /\ UNCHANGED <<deactivating, reconnecting, lastDelay, reconnectCalls,
                   token, ui, processedQRCache, resetTimers, onScan, sends,
                   awaiting, sentSince, initAwait, effectPending>>

\* reconnectDelay: 5000 leaves the automatic reconnect of the STOMP client
\* on: 5 s after its transport has closed, a client that was not deactivated
\* starts a connection attempt of its own and asks webSocketFactory for a
\* transport.  The factory returns the SockJS object of the first attempt,
\* which is closed: the attempt ("retrying") never opens and never ends.
StompReconnect ==
    /\ Quiescent
    /\ UNCHANGED <<qr, view, camera, call, history>> /\ historyAdded' = 0
    /\ UNCHANGED scanner
    /\ ws.stompClient = "closed"
    /\ ws' = [ws EXCEPT !.stompClient = "retrying"]
    /\ notice' = "none"
    /\ UNCHANGED <<deactivating, reconnecting, lastDelay, reconnectCalls,
                   token, ui, processedQRCache, resetTimers, onScan, sends,
                   awaiting, sentSince, initAwait, effectPending>>

\* ------------------------------------------------------ connect / reconnect

BackoffDelay(attempts) ==
    Min(BaseReconnectDelay * Pow2(attempts), maxReconnectDelay)

\* reconnect() up to the await of the backoff timer
reconnect(u2) ==
    /\ ws.sessionId <= MaxReconnects
    /\ reconnecting < MaxSleeping
    /\ deactivating + Deactivated(ws) <= MaxLate
    /\ ws' = disconnect(generateSessionId(ws))
    /\ deactivating' = deactivating + Deactivated(ws)
    /\ lastDelay' = BackoffDelay(ws.reconnectAttempts)
    /\ reconnecting' = reconnecting + 1
    /\ reconnectCalls' = reconnectCalls + 1
    /\ initAwait' = Dropped
    /\ Render(u2)
    /\ notice' = "none"
    /\ UNCHANGED <<token, processedQRCache, resetTimers, sends, awaiting,
                   sentSince>>

\* the Reconnect button, shown while the status is not connected
ManualReconnect ==
    /\ Quiescent
    /\ UNCHANGED <<qr, view, camera, call, history>> /\ historyAdded' = 0
    /\ ui.user
    /\ ~isConnectedToWebSocket(ws)
    /\ reconnect([ui EXCEPT !.setupCompleteRef = FALSE])

\* the callback of the 10 s health check interval
HealthCheck ==
    /\ Quiescent
    /\ UNCHANGED <<qr, view, camera, call, history>> /\ historyAdded' = 0
    /\ ui.healthCheck
    /\ ~isConnectedToWebSocket(ws) /\ ui.setupCompleteRef
    /\ reconnect(ui)

\* reconnect() after the backoff timer: reconnectAttempts++, connect()
ReconnectWake ==
    /\ Quiescent
    /\ UNCHANGED <<qr, view, camera, call, history>> /\ historyAdded' = 0
    /\ UNCHANGED scanner
    /\ reconnecting > 0
    /\ reconnecting' = reconnecting - 1
    /\ LET w1 == [ws EXCEPT !.reconnectAttempts = ws.reconnectAttempts + 1]
           r  == connect(w1, token)
       IN /\ deactivating + r.left <= MaxLate
          /\ ws' = r.w
          /\ deactivating' = deactivating + r.left
    /\ notice' = "none"
    /\ UNCHANGED <<lastDelay, reconnectCalls, token, ui, processedQRCache,
                   resetTimers, onScan, sends, awaiting, sentSince, initAwait,
                   effectPending>>

\* the connection effect of AppContent: setupWebSocketCallbacks, then
\* initializeWebSocket up to its await
WsEffect ==
    /\ effectPending
    /\ UNCHANGED <<qr, view, camera, call, history>> /\ historyAdded' = 0
    /\ UNCHANGED scanner
    /\ effectPending' = FALSE
    /\ LET w1 == [ws EXCEPT !.callbacks = TRUE]
           r  == connect(w1, token)
       IN IF ~isConnectedToWebSocket(ws)
          THEN /\ deactivating + r.left <= MaxLate
               /\ ws' = r.w
               /\ deactivating' = deactivating + r.left
               /\ initAwait' = IF r.ret = "pending" THEN "current" ELSE r.ret
               /\ ui' = ui
          ELSE /\ ws' = w1
               /\ ui' = [ui EXCEPT !.webSocketConnected = TRUE,
                                   !.setupCompleteRef = TRUE]
               /\ UNCHANGED <<deactivating, initAwait>>
    /\ notice' = "none"
    /\ UNCHANGED <<reconnecting, lastDelay, reconnectCalls, token,
                   processedQRCache, resetTimers, onScan, sends, awaiting,
                   sentSince>>

\* the catch of initializeWebSocket, run when the awaited promise rejects
InitializeCatch ==
    /\ Rejected(initAwait)
    /\ UNCHANGED <<qr, view, camera, call, history>> /\ historyAdded' = 0
    /\ IF initAwait = "rejDenied"
       THEN \* logout(): disconnect the service, clear the stored data
            /\ deactivating + Deactivated(ws) <= MaxLate
            /\ deactivating' = deactivating + Deactivated(ws)
            /\ ws' = disconnect(ws)
            /\ token' = "none"
            /\ Render([ui EXCEPT !.setupCompleteRef = FALSE, !.user = FALSE])
            /\ notice' = "accessDenied"
       ELSE /\ Render([ui EXCEPT !.setupCompleteRef = FALSE])
            /\ notice' = "connectFailed"
            /\ UNCHANGED <<ws, token, deactivating>>
    /\ initAwait' = "none"
    /\ UNCHANGED <<reconnecting, lastDelay, reconnectCalls, processedQRCache,
                   resetTimers, sends, awaiting, sentSince>>

\* ---------------------------------------------------------------- handleScan

\* variant: handleScan without the duplicate guard
ScanGuard_NoDuplicateGuard(p, c, cache) ==
    IF p = "" THEN "empty"
    ELSE IF ~c.webSocketConnected THEN "notConnected"
    ELSE IF ~c.user THEN "noSession"
    ELSE IF c.isProcessing THEN "locked"
    ELSE "pass"

\* the guards of handleScan in the order of the code; c is the closure of the
\* render that created the handler
ScanGuard(p, c, cache) ==
    IF p = "" THEN "empty"
    ELSE IF p \in cache THEN "duplicate"
    ELSE IF ~c.webSocketConnected THEN "notConnected"
    ELSE IF ~c.user THEN "noSession"
    ELSE IF c.isProcessing THEN "locked"
    ELSE "pass"

\* sendScanRequest throws before it issues the request
NotConnectedError(w) == ~w.isConnected

\* the payload the catch block of handleScan removes from the cache
CatchDelete(p, c) == c.lastScannedQR

\* variant: the payload is put into the cache before the guards run
handleScan_CachesFirst(p, c, u, cache, w) ==
    LET g  == ScanGuard(p, c, cache)
        u1 == [u EXCEPT !.isProcessing = TRUE, !.lastScannedQR = p,
                        !.errorToastShownRef = FALSE]
    IN CASE g \in {"empty", "duplicate", "notConnected", "noSession"} ->
              [ui |-> Flagged(u), cache |-> cache \cup {p}, outcome |-> g,
               notice |-> Shown(u, g), timers |-> TimerAdd(u)]
         [] g = "locked" ->
              [ui |-> u, cache |-> cache \cup {p}, outcome |-> g,
               notice |-> "none", timers |-> 0]
         [] g = "pass" /\ ~IsIdentity(p) ->
              [ui |-> Flagged([u1 EXCEPT !.isProcessing = FALSE]),
               cache |-> cache \cup {p}, outcome |-> "format",
               notice |-> "format", timers |-> 1]
         [] g = "pass" /\ IsIdentity(p) /\ NotConnectedError(w) ->
              [ui |-> Flagged([u1 EXCEPT !.isProcessing = FALSE]),
               cache |-> (cache \cup {p}) \ {CatchDelete(p, c)},
               outcome |-> "sendFailed",
               notice |-> "sendFailed", timers |-> 1]
         [] OTHER ->
              [ui |-> u1, cache |-> cache \cup {p}, outcome |-> "sent",
               notice |-> "none", timers |-> 0]

\* handleScan(result) up to its await: the new React state, the new cache,
\* the notice shown, the timers started and whether a ScanRequest went out
handleScan(p, c, u, cache, w) ==
    LET g  == ScanGuard(p, c, cache)
        u1 == [u EXCEPT !.isProcessing = TRUE, !.lastScannedQR = p,
                        !.errorToastShownRef = FALSE]
    IN CASE g \in {"empty", "duplicate", "notConnected", "noSession"} ->
              [ui |-> Flagged(u), cache |-> cache, outcome |-> g,
               notice |-> Shown(u, g), timers |-> TimerAdd(u)]
         [] g = "locked" ->
              [ui |-> u, cache |-> cache, outcome |-> g,
               notice |-> "none", timers |-> 0]
         [] g = "pass" /\ ~IsIdentity(p) ->
              [ui |-> Flagged([u1 EXCEPT !.isProcessing = FALSE]),
               cache |-> cache, outcome |-> "format",
               notice |-> "format", timers |-> 1]
         [] g = "pass" /\ IsIdentity(p) /\ NotConnectedError(w) ->
              \* sendScanRequest throws: the catch block
              [ui |-> Flagged([u1 EXCEPT !.isProcessing = FALSE]),
               cache |-> (cache \cup {p}) \ {CatchDelete(p, c)},
               outcome |-> "sendFailed",
               notice |-> "sendFailed", timers |-> 1]
         [] OTHER ->
              [ui |-> u1, cache |-> cache \cup {p}, outcome |-> "sent",
               notice |-> "none", timers |-> 0]

\* the polling callback finds p in the frame: onScan(p), which is handleScan
\* up to its await, and the 2000 ms timer that restarts the interval
Decode(p) ==
    LET r   == handleScan(p, onScan, ui, processedQRCache, ws)
        req == [hash |-> p, lastScannedQR |-> onScan.lastScannedQR]
    IN /\ resetTimers + r.timers <= MaxTimers
       /\ resetTimers' = resetTimers + r.timers
       /\ processedQRCache' = r.cache
       /\ Len(scanner.cooldowns) + scanner.stale < MaxCooldowns
       /\ RenderScanner(r.ui, [scanner EXCEPT
                                 !.cooldowns = Append(@, onScan)])
       /\ notice' = r.notice
       /\ IF r.outcome = "sent"
          THEN /\ Cardinality(sends) < MaxSends
               /\ req \notin sends
               /\ sends' = sends \cup {req}
               /\ awaiting' = awaiting \cup {p}
               /\ sentSince' = [sentSince EXCEPT ![p] = sentSince[p] + 1]
          ELSE /\ UNCHANGED <<sends, awaiting>>
               /\ sentSince' = IF r.outcome = "sendFailed"
                               THEN NoSentSince ELSE sentSince
       /\ UNCHANGED <<ws, deactivating, reconnecting, lastDelay,
                      reconnectCalls, token, initAwait>>

\* the scanner's polling callback decodes a payload and calls the onScan it
\* captured when the camera started
ScannerDecode ==
    /\ Quiescent
    /\ UNCHANGED <<qr, view, camera, call, history>> /\ historyAdded' = 0
    /\ onScan.running
    /\ scanner.interval /\ scanner.video
    /\ \E p \in Payloads : Decode(p)

\* startCamera() of the mounted instance gets its stream, the video plays:
\* startScanning() installs the polling interval
CameraStarted ==
    /\ Quiescent
    /\ UNCHANGED <<qr, view, camera, call, history>> /\ historyAdded' = 0
    /\ scanner.starting
    /\ scanner' = [scanner EXCEPT !.starting = FALSE, !.stream = TRUE,
                                  !.video = TRUE, !.interval = TRUE]
    /\ notice' = "cameraReady"
    /\ UNCHANGED <<ws, deactivating, reconnecting, lastDelay, reconnectCalls,
                   token, ui, processedQRCache, resetTimers, onScan, sends,
                   awaiting, sentSince, initAwait, effectPending>>

\* a 2000 ms timer of the mounted instance fires: if the interval is set it
\* is cleared and startScanning() of the timer's render installs a new one
CooldownFire ==
    /\ Quiescent
    /\ UNCHANGED <<qr, view, camera, call, history>> /\ historyAdded' = 0
    /\ scanner.cooldowns # <<>>
    /\ scanner' = [scanner EXCEPT !.cooldowns = Tail(@),
                                  !.interval = @ /\ scanner.video]
    /\ onScan' = IF scanner.interval /\ scanner.video
                 THEN Head(scanner.cooldowns) ELSE onScan
    /\ notice' = "none"
    /\ UNCHANGED <<ws, deactivating, reconnecting, lastDelay, reconnectCalls,
                   token, ui, processedQRCache, resetTimers, sends,
                   awaiting, sentSince, initAwait, effectPending>>

\* a 2000 ms timer of an unmounted instance fires: its scanIntervalRef is
\* null
StaleCooldownFire ==
    /\ Quiescent
    /\ UNCHANGED <<qr, view, camera, call, history>> /\ historyAdded' = 0
    /\ scanner.stale > 0
    /\ scanner' = [scanner EXCEPT !.stale = @ - 1]
    /\ notice' = "none"
    /\ UNCHANGED <<ws, deactivating, reconnecting, lastDelay, reconnectCalls,
                   token, ui, processedQRCache, resetTimers, onScan, sends,
                   awaiting, sentSince, initAwait, effectPending>>

\* the switch-camera button, rendered over the playing video: stopCamera()
\* and a 100 ms timer that calls startCamera() of the render of the click
switchCamera ==
    /\ Quiescent
    /\ UNCHANGED <<qr, view, camera, call, history>> /\ historyAdded' = 0
    /\ Mounted(ui) /\ scanner.video
    /\ scanner' = [stopCamera(scanner) EXCEPT !.restart = TRUE]
    /\ onScan' = Closure(ui)
    /\ notice' = "none"
    /\ UNCHANGED <<ws, deactivating, reconnecting, lastDelay, reconnectCalls,
                   token, ui, processedQRCache, resetTimers, sends,
                   awaiting, sentSince, initAwait, effectPending>>

\* the 100 ms timer of switchCamera fires
SwitchRestart ==
    /\ Quiescent
    /\ UNCHANGED <<qr, view, camera, call, history>> /\ historyAdded' = 0
    /\ scanner.restart
    /\ scanner' = [startCamera(scanner) EXCEPT !.restart = FALSE]
    /\ notice' = "none"
    /\ UNCHANGED <<ws, deactivating, reconnecting, lastDelay, reconnectCalls,
                   token, ui, processedQRCache, resetTimers, onScan, sends,
                   awaiting, sentSince, initAwait, effectPending>>

\* the HTTP request of sendScanRequest returns OK: handleScan resumes
HttpOk ==
    /\ Quiescent
    /\ UNCHANGED <<qr, view, camera, call, history>> /\ historyAdded' = 0
    /\ \E req \in sends :
          /\ sends' = sends \ {req}
          /\ Render([ui EXCEPT !.scanResult = req.hash, !.cameraActive = FALSE])
          /\ notice' = "none"
          /\ UNCHANGED <<ws, deactivating, reconnecting, lastDelay,
                         reconnectCalls, token, processedQRCache,
                         resetTimers, awaiting, sentSince, initAwait>>

\* the HTTP request fails or returns a non-OK status: the catch of handleScan
HttpFail ==
    /\ Quiescent
    /\ UNCHANGED <<qr, view, camera, call, history>> /\ historyAdded' = 0
    /\ \E req \in sends :
          /\ sends' = sends \ {req}
          /\ resetTimers + TimerAdd(ui) <= MaxTimers
          /\ resetTimers' = resetTimers + TimerAdd(ui)
          /\ processedQRCache' =
                processedQRCache \ {CatchDelete(req.hash, req)}
          /\ sentSince' = NoSentSince
          /\ Render(Flagged([ui EXCEPT !.isProcessing = FALSE]))
          /\ notice' = Shown(ui, "sendFailed")
          /\ UNCHANGED <<ws, deactivating, reconnecting, lastDelay,
                         reconnectCalls, token, awaiting, initAwait>>

\* ------------------------------------------------ events of the subscriptions

Subscribed(w) ==
    StompConnected(w) /\ w.scanResultsSubscription /\ w.errorsSubscription
      /\ w.callbacks

handleScanError(u) == [u EXCEPT !.isProcessing = FALSE]

\* /user/queue/errors delivers the error event of the request for p
ScanErrorEvent ==
    /\ Quiescent
    /\ UNCHANGED <<qr, view, camera, call, history>> /\ historyAdded' = 0
    /\ Subscribed(ws)
    /\ \E p \in awaiting :
          /\ awaiting' = awaiting \ {p}
          /\ notice' = Shown(ui, "scanError")
    /\ resetTimers + TimerAdd(ui) <= MaxTimers
    /\ resetTimers' = resetTimers + TimerAdd(ui)
    /\ processedQRCache' = processedQRCache \ {ui.lastScannedQR}
    /\ sentSince' = NoSentSince
    /\ Render(Flagged(handleScanError(ui)))
    /\ UNCHANGED <<ws, deactivating, reconnecting, lastDelay,
                   reconnectCalls, token, sends, initAwait>>

\* the body of a message on /user/queue/scan-results: a JSON record with a
\* userId, a JSON record without one, or a text that is not JSON
SuccessBodies == {"result", "noUserId", "malformed"}

\* variant: the success callback leaves the camera as it is
handleScanSuccess_KeepsCamera(u) ==
    [u EXCEPT !.isProcessing = FALSE, !.scanCompleted = TRUE,
              !.cameraActive = @, !.errorToastShownRef = FALSE]

handleScanSuccess(u) ==
    [u EXCEPT !.isProcessing = FALSE, !.scanCompleted = TRUE,
              !.cameraActive = FALSE, !.errorToastShownRef = FALSE]

\* /user/queue/scan-results delivers the result of the request for p
ScanSuccessEvent ==
    /\ Quiescent
    /\ UNCHANGED <<qr, view, camera, call, history>>
    /\ Subscribed(ws)
    /\ \E p \in awaiting, body \in SuccessBodies :
          /\ awaiting' = awaiting \ {p}
          /\ IF body = "malformed"
             THEN \* JSON.parse throws: the catch of onScanSuccess
                  /\ resetTimers + TimerAdd(ui) <= MaxTimers
                  /\ resetTimers' = resetTimers + TimerAdd(ui)
                  /\ Render(Flagged(ui))
                  /\ notice' = Shown(ui, "badResponse")
                  /\ historyAdded' = 0
             ELSE /\ resetTimers' = resetTimers
                  /\ Render(handleScanSuccess(ui))
                  /\ notice' = IF body = "result" THEN "scanComplete"
                               ELSE "none"
                  /\ historyAdded' = IF body = "result" THEN 1 ELSE 0
    /\ UNCHANGED <<ws, deactivating, reconnecting, lastDelay,
                   reconnectCalls, token, processedQRCache,
                   sends, sentSince, initAwait>>

\* a setTimeout that resets errorToastShownRef fires
FlagReset ==
    /\ Quiescent
    /\ UNCHANGED <<qr, view, camera, call, history>> /\ historyAdded' = 0
    /\ UNCHANGED scanner
    /\ resetTimers > 0
    /\ resetTimers' = resetTimers - 1
    /\ ui' = [ui EXCEPT !.errorToastShownRef = FALSE]
    /\ notice' = "none"
    /\ UNCHANGED <<ws, deactivating, reconnecting, lastDelay,
                   reconnectCalls, token, processedQRCache,
                   onScan, sends, awaiting, sentSince, initAwait,
                   effectPending>>

\* the CACHE_CLEAR_INTERVAL timer
ClearCache ==
    /\ Quiescent
    /\ UNCHANGED <<qr, view, camera, call, history>> /\ historyAdded' = 0
    /\ UNCHANGED scanner
    /\ processedQRCache' = {}
    /\ sentSince' = NoSentSince
    /\ notice' = "none"
    /\ UNCHANGED <<ws, deactivating, reconnecting, lastDelay,
                   reconnectCalls, token, ui, resetTimers, onScan,
                   sends, awaiting, initAwait, effectPending>>

\* ------------------------------------------------------------- user actions

UserAction(u2) ==
    /\ Render(u2)
    /\ notice' = "none"
    /\ UNCHANGED <<ws, deactivating, reconnecting, lastDelay,
                   reconnectCalls, token, processedQRCache,
                   resetTimers, sends, awaiting, sentSince, initAwait>>

\* resetCameraTimeout(): both timers are cleared, timeLeft is 60 again, the
\* 1 s countdown interval and the 60 s timeout are installed; the timeout
\* callback shows its toast if cameraActive of the calling render is true
resetCameraTimeout(u) ==
    [u EXCEPT !.timeLeft = CameraTimeoutSeconds, !.countdownRef = TRUE,
              !.cameraTimeoutRef = IF u.cameraActive THEN "info" ELSE "silent"]

\* variant: starting a new scan also releases the processing lock
Restarted_ReleasesLock(u) ==
    [resetCameraTimeout(u) EXCEPT !.cameraActive = TRUE, !.scanCompleted = FALSE,
              !.scanResult = Null, !.lastScannedQR = Null,
              !.errorToastShownRef = FALSE, !.isProcessing = FALSE]

Restarted(u) ==
    [resetCameraTimeout(u) EXCEPT !.cameraActive = TRUE, !.scanCompleted = FALSE,
              !.scanResult = Null, !.lastScannedQR = Null,
              !.errorToastShownRef = FALSE]

Finished(u) ==
    [u EXCEPT !.cameraActive = FALSE, !.scanCompleted = FALSE,
              !.scanResult = Null, !.lastScannedQR = Null,
              !.errorToastShownRef = FALSE]

\* "Reset", rendered next to the seconds left while the camera is active
Reset ==
    /\ Quiescent
    /\ UNCHANGED <<qr, view, camera, call, history>> /\ historyAdded' = 0
    /\ ui.user /\ ui.cameraActive
    /\ UserAction(resetCameraTimeout(ui))

\* a second passes: the countdown interval runs its callback.  The ticks
\* before the 60th come before the 60 s timeout; the 60th and the timeout
\* are due together and run in either order.
CountdownTick ==
    /\ Quiescent
    /\ UNCHANGED <<qr, view, camera, call, history>> /\ historyAdded' = 0
    /\ ui.countdownRef /\ ui.timeLeft >= 1
    /\ UserAction([ui EXCEPT !.timeLeft = IF @ <= 1 THEN 0 ELSE @ - 1,
                             !.countdownRef = ui.timeLeft > 1])

\* the 60 s timeout fires
CameraTimeout ==
    /\ Quiescent
    /\ UNCHANGED <<qr, view, camera, call, history>> /\ historyAdded' = 0
    /\ ui.cameraTimeoutRef # Null /\ ui.timeLeft <= 1
    /\ Render([ui EXCEPT !.cameraActive = FALSE, !.timeLeft = 0,
                         !.countdownRef = FALSE, !.cameraTimeoutRef = Null])
    /\ notice' = IF ui.cameraTimeoutRef = "info" THEN "cameraTimeout"
                 ELSE "none"
    /\ UNCHANGED <<ws, deactivating, reconnecting, lastDelay,
                   reconnectCalls, token, processedQRCache,
                   resetTimers, sends, awaiting, sentSince, initAwait>>

\* "Activate Camera", rendered while neither active nor completed
enableCamera ==
    /\ Quiescent
    /\ UNCHANGED <<qr, view, camera, call, history>> /\ historyAdded' = 0
    /\ ui.user /\ ~ui.cameraActive /\ ~ui.scanCompleted
    /\ UserAction(Restarted(ui))

\* "Scan Another", rendered on the completed view
startNewScan ==
    /\ Quiescent
    /\ UNCHANGED <<qr, view, camera, call, history>> /\ historyAdded' = 0
    /\ ui.user /\ ~ui.cameraActive /\ ui.scanCompleted
    /\ UserAction(Restarted(ui))

\* "Complete", rendered on the completed view
completeProcess ==
    /\ Quiescent
    /\ UNCHANGED <<qr, view, camera, call, history>> /\ historyAdded' = 0
    /\ ui.user /\ ~ui.cameraActive /\ ui.scanCompleted
    /\ UserAction(Finished(ui))

\* the ScanResult view is rendered while scanResult is set
handleNewScan ==
    /\ Quiescent
    /\ UNCHANGED <<qr, view, camera, call, history>> /\ historyAdded' = 0
    /\ ui.user /\ ui.scanResult # Null
    /\ UserAction(Restarted(ui))

handleScanResultClose ==
    /\ Quiescent
    /\ UNCHANGED <<qr, view, camera, call, history>> /\ historyAdded' = 0
    /\ ui.user /\ ui.scanResult # Null
    /\ UserAction(Finished(ui))

\* login() stores the tokens; the auth provider sets the user
Login ==
    /\ Quiescent
    /\ UNCHANGED <<qr, view, camera, call, history>> /\ historyAdded' = 0
    /\ ~ui.user
    /\ token' = "fresh"
    /\ Render([ui EXCEPT !.user = TRUE])
    /\ notice' = "none"
    /\ UNCHANGED <<ws, deactivating, reconnecting, lastDelay,
                   reconnectCalls, processedQRCache, resetTimers,
                   sends, awaiting, sentSince, initAwait>>

\* logout() disconnects the service and clears the stored data
Logout ==
    /\ Quiescent
    /\ UNCHANGED <<qr, view, camera, call, history>> /\ historyAdded' = 0
    /\ ui.user
    /\ deactivating + Deactivated(ws) <= MaxLate
    /\ deactivating' = deactivating + Deactivated(ws)
    /\ ws' = disconnect(ws)
    /\ token' = "none"
    /\ Render([ui EXCEPT !.user = FALSE])
    /\ initAwait' = Dropped
    /\ notice' = "none"
    /\ UNCHANGED <<reconnecting, lastDelay, reconnectCalls,
                   processedQRCache, resetTimers, sends, awaiting, sentSince>>

\* refreshAccessToken() fails (a 401 of an authenticated request, then the
\* refresh is refused): clearStoredData() removes the tokens, the user of the
\* auth provider stays
RefreshFailed ==
    /\ Quiescent
    /\ UNCHANGED <<qr, view, camera, call, history>> /\ historyAdded' = 0
    /\ UNCHANGED scanner
    /\ ui.user /\ HasToken(token)
    /\ token' = "none"
    /\ notice' = "none"
    /\ UNCHANGED <<ws, deactivating, reconnecting, lastDelay, reconnectCalls,
                   ui, processedQRCache, resetTimers, onScan, sends, awaiting,
                   sentSince, initAwait, effectPending>>

\* time passes: the expiry of the stored token comes within 30 s
TokenAges ==
    /\ Quiescent
    /\ UNCHANGED <<qr, view, camera, call, history>> /\ historyAdded' = 0
    /\ UNCHANGED scanner
    /\ token = "fresh"
    /\ token' = "expiring"
    /\ notice' = "none"
    /\ UNCHANGED <<ws, deactivating, reconnecting, lastDelay, reconnectCalls,
                   ui, processedQRCache, resetTimers, onScan, sends, awaiting,
                   sentSince, initAwait, effectPending>>

\* ------------------------------------------------------------ specification

\* SpecConn: the Connection Manager with the callers of connect(),
\* reconnect() and disconnect().
NextConn ==
    \/ WsEffect \/ InitializeCatch
    \/ TransportOpen \/ onConnect \/ onStompError \/ onWebSocketError
    \/ onDisconnect \/ TransportClose \/ StompReconnect
    \/ ManualReconnect \/ HealthCheck \/ ReconnectWake
    \/ FlagReset \/ Login \/ Logout \/ RefreshFailed \/ TokenAges

SpecConn == Init /\ [][NextConn]_vars

\* SpecScan: the scanning screen of a logged-in user over the connection the
\* effect opens.
NextScan ==
    \/ WsEffect
    \/ TransportOpen \/ onConnect \/ onStompError \/ onWebSocketError
    \/ TransportClose
    \/ CameraStarted \/ ScannerDecode \/ CooldownFire \/ StaleCooldownFire
    \/ HttpOk \/ HttpFail
    \/ ScanErrorEvent \/ ScanSuccessEvent \/ FlagReset \/ ClearCache
    \/ enableCamera \/ startNewScan \/ completeProcess
    \/ handleNewScan \/ handleScanResultClose
    \/ Login

SpecScan == Init /\ [][NextScan]_vars

\* ------------------------------------------------------------ the QR codec

\* the issuer of the QR codes encodes an identity: JSON record, then base64
EncodeIdentity ==
    /\ qr.stage = "identity"
    /\ \E id \in qr.identity :
          qr' = [qr EXCEPT !.stage = "text",
                           !.text = btoa(Codes(JsonStringify(id)))]
    /\ UNCHANGED <<programVars, historyAdded, view, camera, call, history>>

\* the scan-result view decodes the scanned text
DecodeQRData ==
    /\ qr.stage = "text" /\ ~qr.decodedDone
    /\ qr' = [qr EXCEPT !.decoded = decodeQRData(qr.text),
                        !.decodedDone = TRUE]
    /\ UNCHANGED <<programVars, historyAdded, view, camera, call, history>>

\* the scanned text is classified
GetResultType ==
    /\ qr.stage = "text" /\ qr.kind = "none"
    /\ qr' = [qr EXCEPT !.kind = getResultType(qr.text)]
    /\ UNCHANGED <<programVars, historyAdded, view, camera, call, history>>

NextCodec == EncodeIdentity \/ DecodeQRData \/ GetResultType

InitCodec ==
    /\ InitProgram
    /\ qr \in CodecInputs /\ view = NoView
    /\ camera = NewCamera /\ call = NoCall /\ history = initialState

SpecCodec == InitCodec /\ [][NextCodec]_vars

\* ------------------------------------------------------- the result view

\* getUserAttendanceData returns: processQRData sets the user data
UserDataLoaded ==
    /\ \E a \in view.loads :
          view' = [view EXCEPT
                     !.loads = @ \ {a},
                     !.userData = {[userID |-> a, issued |-> view.server[a]]}]
    /\ UNCHANGED <<programVars, historyAdded, qr, camera, call, history>>

\* the result prop changes: the effect runs processQRData again
ResultChange ==
    /\ view.result # Null
    /\ \E r \in Attendees \ {view.result} :
          view' = [view EXCEPT !.result = r, !.userData = {},
                               !.loads = @ \cup {r}]
    /\ UNCHANGED <<programVars, historyAdded, qr, camera, call, history>>

\* a "Mark Issued" button, disabled while updating or once the item is
\* issued: handleMarkItemIssued up to its await
MarkItemIssued ==
    /\ ~view.updating /\ view.request = {}
    /\ \E u \in view.userData, item \in Items :
          /\ ~u.issued[item]
          /\ view' = [view EXCEPT
                        !.updating = TRUE,
                        !.issuanceStatus[item] = "pending",
                        !.request = {[item |-> item, userData |-> u]}]
    /\ UNCHANGED <<programVars, historyAdded, qr, camera, call, history>>

\* the request returns or fails: the rest of handleMarkItemIssued
MarkItemResponse ==
    /\ \E req \in view.request :
          LET a == req.userData.userID
          IN \E outcome \in MarkOutcomes(view.server[a], req.item) :
                /\ view.statusTimers[req.item] < MaxStatusTimers
                /\ view' = [view EXCEPT
                      !.request = {},
                      !.updating = FALSE,
                      !.server[a][req.item] = @ \/ outcome = "marked",
                      !.userData =
                          IF MarkResult(req.userData, req.item, outcome) = {}
                          THEN @
                          ELSE MarkResult(req.userData, req.item, outcome),
                      !.issuanceStatus[req.item] = MarkStatus(outcome),
                      !.statusTimers[req.item] = @ + 1]
    /\ UNCHANGED <<programVars, historyAdded, qr, camera, call, history>>

\* a 2500 ms timer clears the status of its item
StatusTimer ==
    /\ \E item \in Items :
          /\ view.statusTimers[item] > 0
          /\ view' = [view EXCEPT !.statusTimers[item] = @ - 1,
                                  !.issuanceStatus[item] = "null"]
    /\ UNCHANGED <<programVars, historyAdded, qr, camera, call, history>>

NextIssue ==
    \/ UserDataLoaded \/ ResultChange
    \/ MarkItemIssued \/ MarkItemResponse \/ StatusTimer

InitIssue ==
    /\ InitProgram
    /\ qr = IdleQr /\ view \in MountedViews
    /\ camera = NewCamera /\ call = NoCall /\ history = initialState

SpecIssue == InitIssue /\ [][NextIssue]_vars

\* The QRScanner component under the scanning screen: the camera is started,
\* switched and stopped while decodes and their 2000 ms timers are pending.
NextScanner ==
    \/ WsEffect
    \/ CameraStarted \/ ScannerDecode \/ CooldownFire \/ StaleCooldownFire
    \/ switchCamera \/ SwitchRestart
    \/ FlagReset \/ ClearCache
    \/ enableCamera \/ Reset \/ CountdownTick \/ CameraTimeout
    \/ Login \/ Logout

SpecScanner == Init /\ [][NextScanner]_vars

\* SpecCamera: the camera streams of the QRScanner instances
SpecCamera == Init /\ [][NextCamera]_vars

\* SpecRequest: the makeAuthenticatedRequest calls over one localStorage
SpecRequest == Init /\ [][NextRequest]_vars

\* SpecHistory: the reducers of the history slice
SpecHistory == Init /\ [][NextHistory]_vars

\* ================================================================== claims

\* C1 (SpecScan): between two clears of the duplicate cache, with no
\* submission failure in between, at most one ScanRequest is sent for a
\* payload, and once it is sent every further decode of the payload, by the
\* handler the scanner holds or by the one of the current render, stops at
\* the duplicate guard.
C1_DuplicateSuppression ==
    \A p \in Payloads :
       /\ sentSince[p] <= 1
       /\ sentSince[p] = 1 =>
             /\ ScanGuard(p, onScan, processedQRCache) = "duplicate"
             /\ ScanGuard(p, Closure(ui), processedQRCache) = "duplicate"

\* C1: qrA was sent once and a second decode of it was answered with the
\* duplicate notice
C1_Witness ==
    /\ sentSince["qrA"] = 1
    /\ processedQRCache = {"qrA"}
    /\ notice = "duplicate"

\* C2 (SpecScan): while the processing lock is held, no step sends a further
\* ScanRequest.
C2_ProcessingLock ==
    [][ui.isProcessing => sends' \subseteq sends]_vars

\* C3 (SpecConn): a connect() call made while the current client is still in
\* its handshake (transport connecting or open, not acknowledged, not failed)
\* opens no transport.
C3_ConnectSingleton ==
    [][(ws.stompClient \in {"connecting", "open"}
        /\ (ReconnectWake \/ (WsEffect /\ ~isConnectedToWebSocket(ws))))
       => connect(ws, token).opened = 0]_vars

\* C4 (SpecScan): when the send for a payload fails, in sendScanRequest's
\* connection check or in the HTTP request, the payload is not in the
\* duplicate cache afterwards.
C4_SendFailureHealsCache ==
    [][/\ HttpFail => \A req \in sends \ sends' :
                         req.hash \notin processedQRCache'
       /\ \A p \in Payloads :
            (ScannerDecode /\ Decode(p)
             /\ handleScan(p, onScan, ui, processedQRCache, ws).outcome
                   = "sendFailed")
            => p \notin processedQRCache']_vars

\* C5 (SpecScan): after the error event for a sent payload the payload is not
\* in the duplicate cache, the processing lock is released and the step has
\* shown the scan error notice.
C5_ErrorEvent ==
    [][ScanErrorEvent =>
          /\ \A p \in awaiting \ awaiting' : p \notin processedQRCache'
          /\ ~ui'.isProcessing
          /\ notice' = "scanError"]_vars

\* C6 (SpecConn): isConnectedToWebSocket() is false while the current client
\* is between connect() and the handshake acknowledgement, also with the
\* transport open; it turns true only in the step that handles the
\* acknowledgement of the current client, and it is true only for a client
\* whose handshake was acknowledged.
C6_ConnectedOnlyAfterAck ==
    [][/\ ws'.stompClient \in {"connecting", "open"}
             => ~isConnectedToWebSocket(ws')
       /\ (~isConnectedToWebSocket(ws) /\ isConnectedToWebSocket(ws'))
             => (onConnect /\ ws.stompClient = "open")
       /\ isConnectedToWebSocket(ws')
             => (ws'.stompClient = "connected" /\ ws'.isConnected)]_vars

\* C6: the transport is open, the acknowledgement is outstanding
C6_Witness ==
    /\ ws.stompClient = "open"
    /\ ws.attempt = "pending"
    /\ ~isConnectedToWebSocket(ws)

\* C7 (SpecConn): the delay of the k-th reconnect() since the last
\* acknowledged handshake (k = 0, 1, ...) is min(2000 * 2^k, 30000).
C7_Backoff ==
    reconnectCalls > 0 => lastDelay = BackoffDelay(reconnectCalls - 1)

\* C8 (SpecScan): a decode of a non-empty payload that is not in the
\* duplicate cache, made while isConnectedToWebSocket() is false, shows the
\* not-connected notice, sends no ScanRequest and leaves the cache as it was.
C8_NotConnectedGuard ==
    [][\A p \in Payloads \ {""} :
          (/\ ScannerDecode /\ Decode(p)
           /\ p \notin processedQRCache
           /\ ~isConnectedToWebSocket(ws))
          => /\ notice' = "notConnected"
             /\ sends' = sends
             /\ processedQRCache' = processedQRCache]_vars

\* C9 (SpecConn): when the handshake of an attempt is acknowledged, the
\* promise its connect() call returned is resolved and both channels are
\* subscribed.
C9_ResolvedOnAck ==
    [][onConnect =>
          /\ ws'.attempt = "resolved"
          /\ ws'.scanResultsSubscription /\ ws'.errorsSubscription]_vars

\* C10 (SpecConn): when an attempt ends in a STOMP error or a transport error
\* during the handshake, the promise its connect() call returned is rejected,
\* the registered onDisconnected callback has run and the service is not
\* connected.
C10_RejectedOnError ==
    [][((onStompError \/ onWebSocketError)
        /\ ws.stompClient \in {"connecting", "open"})
       => /\ Rejected(ws'.attempt)
          /\ ws.callbacks => ~ui'.webSocketConnected
          /\ ~isConnectedToWebSocket(ws')]_vars

\* a step in which connect() runs: from reconnect() after its delay, or from
\* initializeWebSocket when the service is not connected
ConnectCall == ReconnectWake \/ (WsEffect /\ ~isConnectedToWebSocket(ws))

\* C11 (SpecConn): a connect() call made with no token stored, or with a
\* stored token whose expiry is within 30 s, opens no transport and returns a
\* promise rejected with the authentication error (calls that return the
\* promise of an attempt in progress aside).
C11_TokenCheck ==
    [][(ConnectCall /\ token \in {"none", "expiring"}
        /\ ws.connectionPromise # "pending")
       => /\ connect(ws, token).opened = 0
          /\ connect(ws, token).ret = "rejNoToken"]_vars

\* C12 (SpecScan): when handleScan reaches sendScanRequest while
\* isConnectedToWebSocket() is false, sendScanRequest throws and no HTTP scan
\* request goes out.
C12_SendRequiresConnection ==
    [][\A p \in Payloads :
          (/\ ScannerDecode /\ Decode(p)
           /\ handleScan(p, onScan, ui, processedQRCache, ws).outcome
                 \in {"sent", "sendFailed"}
           /\ ~isConnectedToWebSocket(ws))
          => /\ NotConnectedError(ws)
             /\ sends' = sends]_vars

\* C13 (SpecConn): a connect() call that opens a transport does so under a
\* sessionId under which no earlier attempt ran.
C13_FreshSessionId ==
    [][(ConnectCall /\ connect(ws, token).opened = 1)
       => ~ws.sessionUsed]_vars

\* the state disconnect() is to leave: no subscriptions, no client, not
\* connected, no connection promise
IsDisconnected(w) ==
    /\ ~w.scanResultsSubscription /\ ~w.errorsSubscription
    /\ w.stompClient = Null
    /\ ~w.isConnected
    /\ w.connectionPromise = Null /\ ~w.connectionResolve
    /\ ~w.connectionReject

C17_HealthCheckArmed ==
    (ui.user /\ ws.stompClient = "closed" /\ ws.isConnected)
       => (ui.healthCheck /\ ui.setupCompleteRef)

\* C18 (SpecConn): a reconnect() called while another reconnect() waits for
\* its delay, or while the current client is in its handshake, starts no
\* further delay and leaves the client as it is.
C18_SingleFlight ==
    [][((ManualReconnect \/ HealthCheck)
        /\ (reconnecting > 0 \/ ws.stompClient \in {"connecting", "open"}))
       => (reconnecting' = reconnecting
           /\ ws'.stompClient = ws.stompClient)]_vars

\* C19 (SpecScan): a payload leaves the duplicate cache only in a step of
\* the periodic clear or in a step in which the submission of that payload
\* fails (its HTTP request fails or its error event arrives).
C19_CachedUntilClearOrFailure ==
    [][\A p \in processedQRCache \ processedQRCache' :
          \/ ClearCache
          \/ HttpFail /\ \E req \in sends \ sends' : req.hash = p
          \/ ScanErrorEvent /\ p \in awaiting \ awaiting']_vars

\* C15 (SpecScan): after a decode is emitted the scanner emits no further
\* decode while the 2000 ms timer of that decode is pending, so every decode
\* is emitted once.
C15_Cooldown ==
    [][ScannerDecode => scanner.cooldowns = <<>>]_vars

\* C16 (SpecScanner): onScan is called only while the camera is active: never
\* after stopCamera() (the unmount cleanup or switchCamera, with 2000 ms
\* timers still pending) until startCamera() was called again and the video
\* plays.
C16_NoScanWhileStopped ==
    /\ [][ScannerDecode => (Mounted(ui) /\ ~scanner.stopped /\ scanner.stream)]_vars
    /\ [][(CooldownFire \/ StaleCooldownFire) =>
            (scanner'.interval => (scanner.interval /\ ~scanner.stopped))]_vars

\* stopCamera() ran while 2000 ms timers of the instance and of an unmounted
\* instance are pending
C16_Witness ==
    /\ scanner.stopped /\ ~scanner.interval
    /\ scanner.cooldowns # <<>>
    /\ scanner.stale > 0

\* C20 (SpecScanner): timeLeft is always in 0..60 and, when it has reached
\* zero, the camera is inactive.
C20_Countdown ==
    /\ ui.timeLeft \in 0..CameraTimeoutSeconds
    /\ ui.timeLeft = 0 => ~ui.cameraActive

\* C21 (SpecScan): after an error notice has been shown, no error notice of
\* the same class is shown while the 3 s timer started with the first one is
\* pending.  Checked for the step that follows the notice: the timer of a
\* notice shown by the last step has not fired.
C21_NoRepeatedNotice ==
    [][(NoticeClass(notice) # "none" /\ resetTimers > 0)
       => NoticeClass(notice') # NoticeClass(notice)]_vars

\* C22 (SpecConn): when the server rejects the handshake as unauthorized
\* while initializeWebSocket awaits connect(), the awaited promise rejects
\* with that error, so that the catch of initializeWebSocket, which runs
\* next, logs the user out and clears the stored credentials.
C22_DeniedForcesLogout ==
    [][(/\ onStompError
        /\ ws.stompClient = "open" /\ initAwait = "current"
        /\ ConnectionLost([ws EXCEPT !.stompClient = "closed"], "rejDenied"))
       => initAwait' = "rejDenied"]_vars

\* C23 (SpecCodec): for every identity {userID, email}, userID = 0 included,
\* decoding the encoded form (JSON record, then base64) returns the same
\* identity.
C23_RoundTrip ==
    (qr.decodedDone /\ qr.identity # {}) => qr.decoded = qr.identity

\* the rules of the classifier in their stated order, and the kind of the
\* first rule that matches
RuleMatches(t) ==
    <<decodeQRData(t) # {},
      StartsWith(t, <<"h", "t", "t", "p", ":", "/", "/">>)
        \/ StartsWith(t, <<"h", "t", "t", "p", "s", ":", "/", "/">>),
      StartsWith(t, <<"W", "i", "F", "i", ":">>),
      Includes(t, "@") /\ Includes(t, "."),
      StartsWith(t, <<"t", "e", "l", ":">>)
        \/ StartsWith(t, <<"s", "m", "s", ":">>)>>
RuleKinds == <<"User QR", "URL", "WiFi", "Email", "Contact">>
FirstMatch(t) ==
    LET hits == {i \in DOMAIN RuleKinds : RuleMatches(t)[i]}
    IN IF hits = {} THEN "Text"
       ELSE RuleKinds[CHOOSE i \in hits : \A j \in hits : i <= j]

C25_IssuedIsOneWay ==
    [][MarkItemResponse =>
         \A u \in view.userData, u2 \in view'.userData :
            u.userID = u2.userID =>
               \A item \in Items : u.issued[item] => u2.issued[item]]_vars

\* a request for one item has returned for an attendee whose other item is
\* issued, and the view shows both as issued
C25_Witness ==
    /\ view.request = {}
    /\ \E item \in Items : view.issuanceStatus[item] = "success"
    /\ \E u \in view.userData : \A item \in Items : u.issued[item]

C27_CameraOffWhileAwaiting ==
    [][ScannerDecode =>
         /\ awaiting = {}
         /\ awaiting' # {} => ~ui'.cameraActive]_vars

\* C28 (SpecScan): when the error callback of a submission has run the
\* camera is inactive, whether the error event or the HTTP response of the
\* send arrives first, and without a user action it stays inactive.
C28_InactiveAfterError ==
    [][/\ ScanErrorEvent => ~ui'.cameraActive
       /\ (~ui.cameraActive /\ ui'.cameraActive)
            => (enableCamera \/ startNewScan \/ handleNewScan)]_vars

\* C29 (SpecScan): every success event releases the processing lock, moves
\* the screen to the completed view with the camera inactive, and adds
\* exactly one entry to the history.
C29_SuccessEvent ==
    [][ScanSuccessEvent =>
         /\ ~ui'.isProcessing /\ ui'.scanCompleted /\ ~ui'.cameraActive
         /\ historyAdded' = 1]_vars

\* C30 (SpecScanner): whenever the inactivity timeout fires while the camera
\* is active, the camera becomes inactive and the inactivity notification
\* is shown, whichever of enableCamera, startNewScan and Reset started the
\* countdown.
C30_TimeoutNotifies ==
    [][(CameraTimeout /\ ui.cameraActive)
       => (~ui'.cameraActive /\ notice' = "cameraTimeout")]_vars

\* C31 (SpecConn): a transport error or a handshake error leaves the service
\* disconnected, and a connection attempt begins only in a step in which
\* connect() is called (by initializeWebSocket or by reconnect()), never in
\* a step of the service or of its STOMP client alone.
C31_NoRetryFromWithin ==
    [][/\ (onStompError \/ onWebSocketError)
            => (~ws'.isConnected /\ ws'.stompClient = "closed")
       /\ (ws'.stompClient \in {"connecting", "retrying"}
             /\ ws'.stompClient # ws.stompClient) => ConnectCall]_vars

\* C32 (SpecCamera): at most one camera stream is held at any time, and no
\* stream is held once the scanner is unmounted (stopCamera() has run) and
\* the startCamera() calls that were in flight have completed.
C32_OneStream ==
    /\ camera.live <= 1
    /\ (~camera.mounted /\ camera.orphans = 0) => camera.live = 0

\* C33 (SpecConn): the memoized connection promise is held only while an
\* attempt is in flight, and a connect() call made after an attempt has
\* ended starts a fresh attempt instead of returning the ended promise.
C33_HeldOnlyInFlight ==
    [][/\ ws'.connectionPromise \in {Null, "pending"}
       /\ (ConnectCall /\ HasToken(token) /\ ws.connectionPromise # "pending")
             => (ws'.connectionPromise = "pending"
                 /\ ws'.stompClient = "connecting")]_vars

\* C34 (SpecConn): the onDisconnect callback of a client that disconnect()
\* has deactivated, when it fires after a later connect() has created the
\* current client, leaves the current session as it is: the connected flag,
\* the memoized promise and the promise of the current attempt are
\* unchanged and no callback of the screen runs.
C34_LateCallbackIgnored ==
    [][(onDisconnect /\ ws.stompClient \in {"connecting", "open", "connected"})
       =>
          /\ ws'.isConnected = ws.isConnected
          /\ ws'.connectionPromise = ws.connectionPromise
          /\ ws'.connectionResolve = ws.connectionResolve
          /\ ui'.webSocketConnected = ui.webSocketConnected
          /\ initAwait' = initAwait
          /\ notice' = "none"]_vars

\* C35 (SpecScan): the processing lock is released only in a step of the
\* success callback, of the error callback, of a decode that ends in a format
\* failure or a failed send, or of a failed HTTP request; the user actions
\* enableCamera, startNewScan, completeProcess, handleNewScan and
\* handleScanResultClose leave the lock as it is.
C35_LockReleasedOnlyByOutcome ==
    [][(ui'.isProcessing # ui.isProcessing)
       => /\ ~ui'.isProcessing
               => (ScanSuccessEvent \/ ScanErrorEvent \/ HttpFail
                     \/ ScannerDecode)
          /\ ~(enableCamera \/ startNewScan \/ completeProcess
                 \/ handleNewScan \/ handleScanResultClose)]_vars

\* the lock is held after a new scan was started from the result view
C35_Witness ==
    /\ ui.isProcessing /\ ui.cameraActive
    /\ ui.lastScannedQR = Null /\ awaiting # {} /\ sends = {}

\* C36 (SpecScan): in every reachable state of the screen the camera is not
\* active while the scan is marked completed.
C36_NotActiveWhileCompleted ==
    ~(ui.cameraActive /\ ui.scanCompleted)

\* a success event has arrived after the user started a new scan
C36_Witness ==
    /\ ui.scanCompleted /\ ~ui.cameraActive
    /\ ui.lastScannedQR = Null /\ notice = "scanComplete"

\* C37 (SpecRequest): a makeAuthenticatedRequest call sends at most two
\* requests for its URL and at most one refresh request, a retried request
\* ends the call, and whenever a call ends with the authentication error
\* because the refresh gave no token, the stored credentials are all cleared.
C37_OneRefreshOneRetry ==
    [][\A id \in CallIds :
          LET c  == call.calls[id]
              c2 == call'.calls[id]
          IN /\ c2.fetches <= 2 /\ c2.refreshes <= 1
             /\ (c.phase = "retry" /\ c2 # c) => c2.phase = "done"
             /\ (c.outcome # "authFailed" /\ c2.outcome = "authFailed")
                   => call'.storage = LoggedOut]_vars

\* C38 (SpecHistory): after every reducer of the history slice items has at
\* most 100 entries, and addHistoryItem puts the new item first.
C38_HistoryCapped ==
    [][/\ Len(history'.items) <= HistoryCap
       /\ AddHistoryItem => history'.items[1] = NewScan]_vars

====
